---- MODULE Spec2Model ----
(***************************************************************************)
(* Model of src/lib/getSvgFromGraphicsObject.ts: the bounds calculator,    *)
(* the projection matrix builder, the geometry projector, the document     *)
(* assembler and the two pointer handlers of the embedded script.          *)
(*                                                                         *)
(* Numbers.  A JavaScript number is modelled as a record [n, d]: the exact *)
(* rational n/d in lowest terms with d > 0, or one of the three IEEE       *)
(* special values, d = 0 and n = 1 (Infinity), n = -1 (-Infinity), n = 0   *)
(* (NaN).  Finite arithmetic is exact (the source's results hold "up to    *)
(* floating-point tolerance"); the special values follow IEEE 754.  The    *)
(* sign of zero is not modelled: the only divisions by zero in the source  *)
(* divide by max - min, which is +0.                                       *)
(***************************************************************************)
EXTENDS Integers, Sequences, FiniteSets, TLC

\* ------------------------------------------------------------------ bounds
\* the largest number of primitives in a scene (all four collections together)
MaxPrims == 2

\* --------------------------------------------------------------- constants
DEFAULT_SVG_SIZE == 640
PADDING == 40

\* ----------------------------------------------------------------- numbers
RECURSIVE GCD(_, _)
GCD(p, q) == IF q = 0 THEN p ELSE GCD(q, p % q)

IAbs(i) == IF i < 0 THEN -i ELSE i
Sgn(i) == IF i < 0 THEN -1 ELSE IF i > 0 THEN 1 ELSE 0

Rat(n, d) ==
    LET g == GCD(IAbs(n), d)
    IN  [n |-> Sgn(n) * (IAbs(n) \div g), d |-> d \div g]

I(i) == [n |-> i, d |-> 1]
Zero == I(0)
Infinity == [n |-> 1, d |-> 0]
NegInfinity == [n |-> -1, d |-> 0]
NaN == [n |-> 0, d |-> 0]

IsNaN(x) == x.d = 0 /\ x.n = 0
IsFinite(x) == x.d > 0

Neg(x) == [n |-> -x.n, d |-> x.d]

Add(x, y) ==
    IF IsNaN(x) \/ IsNaN(y) THEN NaN
    ELSE IF x.d = 0 /\ y.d = 0 THEN (IF x.n = y.n THEN x ELSE NaN)
    ELSE IF x.d = 0 THEN x
    ELSE IF y.d = 0 THEN y
    ELSE Rat(x.n * y.d + y.n * x.d, x.d * y.d)

Sub(x, y) == Add(x, Neg(y))

Mul(x, y) ==
    IF IsNaN(x) \/ IsNaN(y) THEN NaN
    ELSE IF x.d = 0 \/ y.d = 0
         THEN (IF x.n = 0 \/ y.n = 0 THEN NaN
               ELSE [n |-> Sgn(x.n) * Sgn(y.n), d |-> 0])
    ELSE Rat(x.n * y.n, x.d * y.d)

Div(x, y) ==
    IF IsNaN(x) \/ IsNaN(y) THEN NaN
    ELSE IF x.d = 0 /\ y.d = 0 THEN NaN
    ELSE IF y.d = 0 THEN Zero
    ELSE IF x.d = 0 THEN [n |-> x.n * (IF y.n < 0 THEN -1 ELSE 1), d |-> 0]
    ELSE IF y.n = 0 THEN (IF x.n = 0 THEN NaN ELSE [n |-> Sgn(x.n), d |-> 0])
    ELSE Rat(Sgn(y.n) * x.n * y.d, x.d * IAbs(y.n))

\* x < y and x <= y; false whenever an operand is NaN
Lt(x, y) ==
    /\ ~IsNaN(x) /\ ~IsNaN(y)
    /\ IF x.d = 0 /\ y.d = 0 THEN x.n < y.n
       ELSE IF x.d = 0 THEN x.n < 0
       ELSE IF y.d = 0 THEN y.n > 0
       ELSE x.n * y.d < y.n * x.d

Le(x, y) == ~IsNaN(x) /\ ~IsNaN(y) /\ ~Lt(y, x)

MathMin(x, y) ==
    IF IsNaN(x) \/ IsNaN(y) THEN NaN ELSE IF Lt(y, x) THEN y ELSE x

MathMax(x, y) ==
    IF IsNaN(x) \/ IsNaN(y) THEN NaN ELSE IF Lt(x, y) THEN y ELSE x

MathAbs(x) == [n |-> IAbs(x.n), d |-> x.d]

\* ----------------------------------------------------------- scene inputs
\* graphics.points, .lines, .rects, .circles are each absent (undefined) or
\* an array.  The optional presentation attributes (color, label, fill,
\* stroke) are left unset in every input, so the renderer takes its defaults.
Absent == [defined |-> FALSE, items |-> <<>>]
Array(items) == [defined |-> TRUE, items |-> items]

Pt(x, y) == [x |-> I(x), y |-> I(y)]

Coords == {0, 1}
PointSet == {Pt(x, y) : x \in Coords, y \in Coords}

\* a Line holds at least one point
LineSet ==
    {[points |-> <<Pt(1, 1)>>]}
        \cup {[points |-> <<Pt(0, 0), q>>] : q \in PointSet}

RectDims == {<<0, 0>>, <<2, 1>>, <<1, 2>>}
RectSet ==
    {[center |-> c, width |-> I(wh[1]), height |-> I(wh[2])] :
        c \in {Pt(0, 0), Pt(1, 1)}, wh \in RectDims}

CircleSet ==
    {[center |-> c, radius |-> I(r)] : c \in {Pt(0, 0), Pt(1, 0)}, r \in {0, 1}}

CoordinateSystems == {"math", "screen"}

\* the arrays of exactly n elements of S, and for n = 0 also the absent array
Arrays(S, n) == IF n = 0 THEN {Absent, Array(<<>>)} ELSE {Array(a) : a \in [1..n -> S]}

\* `c || []`
OrEmpty(c) == IF c.defined THEN c.items ELSE <<>>

\* array.flatMap(f) for an f that returns an array
RECURSIVE Flatten(_)
Flatten(ss) == IF ss = <<>> THEN <<>> ELSE Head(ss) \o Flatten(Tail(ss))

\* ------------------------------------------------------------- getBounds
RectCorners(rect) ==
    LET halfWidth == Div(rect.width, I(2))
        halfHeight == Div(rect.height, I(2))
    IN  << [x |-> Sub(rect.center.x, halfWidth), y |-> Sub(rect.center.y, halfHeight)],
           [x |-> Add(rect.center.x, halfWidth), y |-> Sub(rect.center.y, halfHeight)],
           [x |-> Sub(rect.center.x, halfWidth), y |-> Add(rect.center.y, halfHeight)],
           [x |-> Add(rect.center.x, halfWidth), y |-> Add(rect.center.y, halfHeight)] >>

\* a circle contributing its centre only
CircleExtremesCentreOnly(circle) ==
    << [x |-> circle.center.x, y |-> circle.center.y] >>

CircleExtremes(circle) ==
    << [x |-> Sub(circle.center.x, circle.radius), y |-> circle.center.y],
       [x |-> Add(circle.center.x, circle.radius), y |-> circle.center.y],
       [x |-> circle.center.x, y |-> Sub(circle.center.y, circle.radius)],
       [x |-> circle.center.x, y |-> Add(circle.center.y, circle.radius)] >>

BoundsPoints(g) ==
    OrEmpty(g.points)
        \o Flatten([i \in DOMAIN OrEmpty(g.lines) |-> OrEmpty(g.lines)[i].points])
        \o Flatten([i \in DOMAIN OrEmpty(g.rects) |-> RectCorners(OrEmpty(g.rects)[i])])
        \o Flatten([i \in DOMAIN OrEmpty(g.circles) |-> CircleExtremes(OrEmpty(g.circles)[i])])

RECURSIVE ReduceBounds(_, _)
ReduceBounds(points, acc) ==
    IF points = <<>> THEN acc
    ELSE LET point == Head(points)
         IN  ReduceBounds(Tail(points),
                 [minX |-> MathMin(acc.minX, point.x),
                  maxX |-> MathMax(acc.maxX, point.x),
                  minY |-> MathMin(acc.minY, point.y),
                  maxY |-> MathMax(acc.maxY, point.y)])

FallbackBounds == [minX |-> I(-1), maxX |-> I(1), minY |-> I(-1), maxY |-> I(1)]

\* the reduction without the empty-scene fallback
getBoundsNoFallback(g) ==
    ReduceBounds(BoundsPoints(g),
        [minX |-> Infinity, maxX |-> NegInfinity,
         minY |-> Infinity, maxY |-> NegInfinity])

getBounds(g) ==
    LET points == BoundsPoints(g)
    IN  IF Len(points) = 0 THEN FallbackBounds
        ELSE ReduceBounds(points,
                 [minX |-> Infinity, maxX |-> NegInfinity,
                  minY |-> Infinity, maxY |-> NegInfinity])

\* -------------------------------------------------- transformation-matrix
translate(tx, ty) == [a |-> I(1), b |-> Zero, c |-> Zero, d |-> I(1), e |-> tx, f |-> ty]

scale(sx, sy) == [a |-> sx, b |-> Zero, c |-> Zero, d |-> sy, e |-> Zero, f |-> Zero]

multiply(m1, m2) ==
    [a |-> Add(Mul(m1.a, m2.a), Mul(m1.c, m2.b)),
     c |-> Add(Mul(m1.a, m2.c), Mul(m1.c, m2.d)),
     e |-> Add(Add(Mul(m1.a, m2.e), Mul(m1.c, m2.f)), m1.e),
     b |-> Add(Mul(m1.b, m2.a), Mul(m1.d, m2.b)),
     d |-> Add(Mul(m1.b, m2.c), Mul(m1.d, m2.d)),
     f |-> Add(Add(Mul(m1.b, m2.e), Mul(m1.d, m2.f)), m1.f)]

\* compose(m1, ..., mn): the product, taken from the left
RECURSIVE compose(_)
compose(ms) ==
    IF Len(ms) = 1 THEN ms[1]
    ELSE compose(<<multiply(ms[1], ms[2])>> \o SubSeq(ms, 3, Len(ms)))

applyToPoint(m, p) ==
    [x |-> Add(Add(Mul(m.a, p.x), Mul(m.c, p.y)), m.e),
     y |-> Add(Add(Mul(m.b, p.x), Mul(m.d, p.y)), m.f)]

\* --------------------------------------------------- getProjectionMatrix
ScaleFactor(bounds) ==
    LET width == Sub(bounds.maxX, bounds.minX)
        height == Sub(bounds.maxY, bounds.minY)
    IN  MathMin(Div(I(DEFAULT_SVG_SIZE - 2 * PADDING), width),
                Div(I(DEFAULT_SVG_SIZE - 2 * PADDING), height))

\* the scene's minimum corner, not its centre, moved to the canvas centre
getProjectionMatrixCorner(bounds, coordinateSystem) ==
    LET scale_factor == ScaleFactor(bounds)
    IN  compose(<<
            translate(Div(I(DEFAULT_SVG_SIZE), I(2)), Div(I(DEFAULT_SVG_SIZE), I(2))),
            scale(scale_factor,
                  IF coordinateSystem = "screen" THEN Neg(scale_factor) ELSE scale_factor),
            translate(Neg(bounds.minX), Neg(bounds.minY)) >>)

getProjectionMatrix(bounds, coordinateSystem) ==
    LET width == Sub(bounds.maxX, bounds.minX)
        height == Sub(bounds.maxY, bounds.minY)
        scale_factor == ScaleFactor(bounds)
    IN  compose(<<
            translate(Div(I(DEFAULT_SVG_SIZE), I(2)), Div(I(DEFAULT_SVG_SIZE), I(2))),
            scale(scale_factor,
                  IF coordinateSystem = "screen" THEN Neg(scale_factor) ELSE scale_factor),
            translate(Neg(Add(bounds.minX, Div(width, I(2)))),
                      Neg(Add(bounds.minY, Div(height, I(2))))) >>)

projectPoint(point, m) ==
    LET projected == applyToPoint(m, [x |-> point.x, y |-> point.y])
    IN  [point EXCEPT !.x = projected.x, !.y = projected.y]

\* ------------------------------------------------------------------ state
VARIABLES
    graphics,   \* the GraphicsObject's graphics, the input of the render call
    pc,         \* "start" before the call, "rendered" once the document exists
    bounds,     \* the Bounds computed by the call
    matrix,     \* the projection matrix computed by the call
    svg,        \* the children of the root svg element (the live document)
    lastEvent   \* the last pointer event delivered to the document

vars == <<graphics, pc, bounds, matrix, svg, lastEvent>>

NoEvent == [type |-> "none", x |-> Zero, y |-> Zero]

Scenes ==
    UNION {
      UNION {
        UNION {
          UNION {
            {[points |-> ps, lines |-> ls, rects |-> rs, circles |-> cs,
              coordinateSystem |-> sys] :
                ps \in Arrays(PointSet, np), ls \in Arrays(LineSet, nl),
                rs \in Arrays(RectSet, nr), cs \in Arrays(CircleSet, nc),
                sys \in CoordinateSystems}
            : nc \in 0..(MaxPrims - np - nl - nr)}
          : nr \in 0..(MaxPrims - np - nl)}
        : nl \in 0..(MaxPrims - np)}
      : np \in 0..MaxPrims}

Init ==
    /\ graphics \in Scenes
    /\ pc = "start"
    /\ bounds = FallbackBounds
    /\ matrix = translate(Zero, Zero)
    /\ svg = <<>>
    /\ lastEvent = NoEvent

\* --------------------------------------------------- document assembler
\* JSON.stringify writes a non-finite number as null; the script reads the
\* literal back, and null is 0 in arithmetic.
JSONNumber(x) == IF IsFinite(x) THEN [null |-> FALSE, v |-> x] ELSE [null |-> TRUE, v |-> Zero]

JSONStringify(m) ==
    [a |-> JSONNumber(m.a), b |-> JSONNumber(m.b), c |-> JSONNumber(m.c),
     d |-> JSONNumber(m.d), e |-> JSONNumber(m.e), f |-> JSONNumber(m.f)]

ToNumber(j) == IF j.null THEN Zero ELSE j.v

PointNode(point, m) ==
    LET projected == projectPoint(point, m)
    IN  [name |-> "g",
         children |-> << [name |-> "circle",
                          attributes |-> [cx |-> projected.x, cy |-> projected.y,
                                          r |-> I(3), fill |-> "black"]] >>]

LineNode(line, m) ==
    [name |-> "polyline",
     attributes |->
        [points |-> [i \in DOMAIN line.points |->
                        LET p == projectPoint(line.points[i], m) IN <<p.x, p.y>>],
         fill |-> "none", stroke |-> "black", strokeWidth |-> I(1)]]

RectNode(rect, m) ==
    LET projected == projectPoint(rect.center, m)
        scaledWidth == Mul(rect.width, m.a)
        scaledHeight == Mul(rect.height, m.d)
    IN  [name |-> "rect",
         attributes |->
            [x |-> Sub(projected.x, Div(scaledWidth, I(2))),
             y |-> Sub(projected.y, Div(scaledHeight, I(2))),
             width |-> scaledWidth,
             height |-> MathAbs(scaledHeight),
             fill |-> "none", stroke |-> "black"]]

CircleNode(circle, m) ==
    LET projected == projectPoint(circle.center, m)
        scaledRadius == Mul(circle.radius, MathAbs(m.a))
    IN  [name |-> "circle",
         attributes |-> [cx |-> projected.x, cy |-> projected.y, r |-> scaledRadius,
                         fill |-> "none", stroke |-> "black"]]

\* an attribute that is not set is written "unset"; textContent "" is <<>>
Unset == [n |-> 0, d |-> -1]

CrosshairNode ==
    [name |-> "g",
     attributes |-> [id |-> "crosshair", display |-> "none"],
     h |-> [x1 |-> Unset, x2 |-> Unset, y1 |-> Zero, y2 |-> I(DEFAULT_SVG_SIZE)],
     v |-> [x1 |-> Zero, x2 |-> I(DEFAULT_SVG_SIZE), y1 |-> Unset, y2 |-> Unset],
     coordinates |-> [x |-> Unset, y |-> Unset, textContent |-> <<>>]]

ScriptNode(m) == [name |-> "script", matrix |-> JSONStringify(m)]

\* circles emitted before rects
ChildrenCirclesFirst(g, m) ==
    [i \in DOMAIN OrEmpty(g.points) |-> PointNode(OrEmpty(g.points)[i], m)]
        \o [i \in DOMAIN OrEmpty(g.lines) |-> LineNode(OrEmpty(g.lines)[i], m)]
        \o [i \in DOMAIN OrEmpty(g.circles) |-> CircleNode(OrEmpty(g.circles)[i], m)]
        \o [i \in DOMAIN OrEmpty(g.rects) |-> RectNode(OrEmpty(g.rects)[i], m)]
        \o <<CrosshairNode, ScriptNode(m)>>

Children(g, m) ==
    [i \in DOMAIN OrEmpty(g.points) |-> PointNode(OrEmpty(g.points)[i], m)]
        \o [i \in DOMAIN OrEmpty(g.lines) |-> LineNode(OrEmpty(g.lines)[i], m)]
        \o [i \in DOMAIN OrEmpty(g.rects) |-> RectNode(OrEmpty(g.rects)[i], m)]
        \o [i \in DOMAIN OrEmpty(g.circles) |-> CircleNode(OrEmpty(g.circles)[i], m)]
        \o <<CrosshairNode, ScriptNode(m)>>

\* line.points[0].stroke throws a TypeError for a line without points
Throws(g) == \E i \in DOMAIN OrEmpty(g.lines) : Len(OrEmpty(g.lines)[i].points) = 0

\* getSvgFromGraphicsObject(graphicsObj)
Render ==
    /\ pc = "start"
    /\ IF Throws(graphics)
       THEN /\ pc' = "threw"
            /\ UNCHANGED <<bounds, matrix, svg>>
       ELSE /\ bounds' = getBounds(graphics)
            /\ matrix' = compose(<<getProjectionMatrix(bounds', graphics.coordinateSystem)>>)
            /\ svg' = Children(graphics, matrix')
            /\ pc' = "rendered"
    /\ UNCHANGED <<graphics, lastEvent>>

\* ----------------------------------------------------- interaction script
\* number.toFixed(2): the nearest multiple of 1/100, a tie going away from
\* zero; "NaN" and "Infinity" for the special values
toFixed2(x) ==
    IF ~IsFinite(x) THEN x
    ELSE LET a == IAbs(x.n) * 100
             q == a \div x.d
             h == IF 2 * (a % x.d) >= x.d THEN q + 1 ELSE q
         IN  Rat(Sgn(x.n) * h, 100)

\* svg.getElementById('crosshair')
CrosshairIndex(doc) ==
    CHOOSE i \in DOMAIN doc : doc[i].name = "g" /\ "attributes" \in DOMAIN doc[i]

ScriptIndex(doc) == CHOOSE i \in DOMAIN doc : doc[i].name = "script"

\* the scene point the mousemove listener computes for canvas position (x, y)
RealPoint(m, x, y) ==
    LET sx == ToNumber(m.a)
        sy == ToNumber(m.d)
        tx == ToNumber(m.e)
        ty == ToNumber(m.f)
    IN  [x |-> Div(Sub(x, tx), sx), y |-> Neg(Div(Sub(y, ty), sy))]

MouseMoved(doc, x, y) ==
    LET realPoint == RealPoint(doc[ScriptIndex(doc)].matrix, x, y)
    IN  [doc EXCEPT ![CrosshairIndex(doc)] =
            [@ EXCEPT !.attributes.display = "block",
                      !.h = [x1 |-> Zero, x2 |-> I(DEFAULT_SVG_SIZE), y1 |-> y, y2 |-> y],
                      !.v = [x1 |-> x, x2 |-> x, y1 |-> Zero, y2 |-> I(DEFAULT_SVG_SIZE)],
                      !.coordinates =
                          [x |-> Add(x, I(5)), y |-> Sub(y, I(5)),
                           textContent |-> <<toFixed2(realPoint.x), toFixed2(realPoint.y)>>]]]

\* document.currentScript is the script element only while the script's own
\* top-level code runs; inside an event listener it is null
ListenerCurrentScript == "null"

\* the mouseleave listener: document.currentScript.parentElement... throws a
\* TypeError when document.currentScript is null, before anything is written
MouseLeft(doc) ==
    IF ListenerCurrentScript = "null" THEN doc
    ELSE [doc EXCEPT ![CrosshairIndex(doc)].attributes.display = "none"]

\* the scene points whose canvas positions the pointer is moved to
Probes == {Pt(1, 1)}

InCanvas(p) ==
    /\ Le(Zero, p.x) /\ Le(p.x, I(DEFAULT_SVG_SIZE))
    /\ Le(Zero, p.y) /\ Le(p.y, I(DEFAULT_SVG_SIZE))

\* pointer positions relative to the canvas: e.clientX - rect.left, e.clientY - rect.top
MousePositions ==
    {[x |-> I(DEFAULT_SVG_SIZE \div 2), y |-> I(DEFAULT_SVG_SIZE \div 2)]}
        \cup {q \in {applyToPoint(matrix, p) : p \in Probes} : InCanvas(q)}

MouseMove ==
    /\ pc = "rendered"
    /\ \E pos \in MousePositions :
          /\ svg' = MouseMoved(svg, pos.x, pos.y)
          /\ lastEvent' = [type |-> "mousemove", x |-> pos.x, y |-> pos.y]
    /\ UNCHANGED <<graphics, pc, bounds, matrix>>

MouseLeave ==
    /\ pc = "rendered"
    /\ svg' = MouseLeft(svg)
    /\ lastEvent' = [type |-> "mouseleave", x |-> Zero, y |-> Zero]
    /\ UNCHANGED <<graphics, pc, bounds, matrix>>

Next == Render \/ MouseMove \/ MouseLeave

Spec == Init /\ [][Next]_vars

\* ------------------------------------------------------------- properties
Rendered == pc = "rendered"

points == OrEmpty(graphics.points)
lines == OrEmpty(graphics.lines)
rects == OrEmpty(graphics.rects)
circles == OrEmpty(graphics.circles)

NonEmptyScene == Len(points) + Len(lines) + Len(rects) + Len(circles) > 0

\* positions of the primitives' nodes among the root's children
LineAt(i) == Len(points) + i
RectAt(i) == Len(points) + Len(lines) + i
CircleAt(i) == Len(points) + Len(lines) + Len(rects) + i
PrimitiveCount == Len(points) + Len(lines) + Len(rects) + Len(circles)

BoundsWidth == Sub(bounds.maxX, bounds.minX)
BoundsHeight == Sub(bounds.maxY, bounds.minY)
NonDegenerate == Lt(Zero, BoundsWidth) /\ Lt(Zero, BoundsHeight)

InPadded(v) == Le(I(PADDING), v) /\ Le(v, I(DEFAULT_SVG_SIZE - PADDING))

NodeFits(node) ==
    IF node.name = "g"
    THEN InPadded(node.children[1].attributes.cx) /\ InPadded(node.children[1].attributes.cy)
    ELSE IF node.name = "polyline"
    THEN \A k \in DOMAIN node.attributes.points :
            InPadded(node.attributes.points[k][1]) /\ InPadded(node.attributes.points[k][2])
    ELSE IF node.name = "rect"
    THEN /\ InPadded(node.attributes.x)
         /\ InPadded(Add(node.attributes.x, node.attributes.width))
         /\ InPadded(node.attributes.y)
         /\ InPadded(Add(node.attributes.y, node.attributes.height))
    ELSE /\ InPadded(Sub(node.attributes.cx, node.attributes.r))
         /\ InPadded(Add(node.attributes.cx, node.attributes.r))
         /\ InPadded(Sub(node.attributes.cy, node.attributes.r))
         /\ InPadded(Add(node.attributes.cy, node.attributes.r))

\* C1: for every non-empty scene, under 'math' and under 'screen', the
\* rendered extent of every primitive lies inside [PADDING, SIZE - PADDING]
\* on both axes.
C1_FitInvariant ==
    (Rendered /\ NonEmptyScene) => \A i \in 1..PrimitiveCount : NodeFits(svg[i])

NodeFinite(node) ==
    IF node.name = "g"
    THEN IsFinite(node.children[1].attributes.cx) /\ IsFinite(node.children[1].attributes.cy)
    ELSE IF node.name = "polyline"
    THEN \A k \in DOMAIN node.attributes.points :
            IsFinite(node.attributes.points[k][1]) /\ IsFinite(node.attributes.points[k][2])
    ELSE IF node.name = "rect"
    THEN /\ IsFinite(node.attributes.x) /\ IsFinite(node.attributes.y)
         /\ IsFinite(node.attributes.width) /\ IsFinite(node.attributes.height)
    ELSE /\ IsFinite(node.attributes.cx) /\ IsFinite(node.attributes.cy)
         /\ IsFinite(node.attributes.r)

MatrixFinite(m) ==
    /\ IsFinite(m.a) /\ IsFinite(m.b) /\ IsFinite(m.c)
    /\ IsFinite(m.d) /\ IsFinite(m.e) /\ IsFinite(m.f)

\* C2: when the bounding box has zero width or zero height, the scale factor
\* and every coordinate, dimension and matrix coefficient written to the
\* output are finite.
C2_DegenerateExtentFinite ==
    (Rendered /\ NonEmptyScene /\ (BoundsWidth = Zero \/ BoundsHeight = Zero)) =>
        /\ IsFinite(ScaleFactor(bounds))
        /\ MatrixFinite(matrix)
        /\ \A i \in 1..PrimitiveCount : NodeFinite(svg[i])
        /\ \A i \in DOMAIN svg :
              svg[i].name = "script" =>
                 \A k \in DOMAIN svg[i].matrix : ~svg[i].matrix[k].null

\* C3: for a scene whose four collections are each absent or empty the call
\* does not throw, the bounds are exactly {-1, 1, -1, 1}, and the root's
\* children are exactly the hidden crosshair group followed by the script.
C3_EmptyScene ==
    ~NonEmptyScene =>
        /\ pc # "threw"
        /\ Rendered =>
              /\ bounds = [minX |-> I(-1), maxX |-> I(1), minY |-> I(-1), maxY |-> I(1)]
              /\ Len(svg) = 2
              /\ svg[1].name = "g" /\ svg[1].attributes.id = "crosshair"
              /\ lastEvent.type = "none" => svg[1].attributes.display = "none"
              /\ svg[2].name = "script"

C3_Witness ==
    /\ Rendered
    /\ lastEvent.type = "none"
    /\ graphics.lines = Array(<<>>)
    /\ ~graphics.points.defined /\ ~graphics.rects.defined /\ ~graphics.circles.defined

\* the same scene rendered under 'math'
MathGraphics == [graphics EXCEPT !.coordinateSystem = "math"]
MathSvg ==
    Children(MathGraphics,
             compose(<<getProjectionMatrix(getBounds(MathGraphics), "math")>>))

Mirror(v) == Sub(I(DEFAULT_SVG_SIZE), v)

NodeMirrors(s, m) ==
    IF s.name = "g"
    THEN /\ s.children[1].attributes.cx = m.children[1].attributes.cx
         /\ s.children[1].attributes.cy = Mirror(m.children[1].attributes.cy)
    ELSE IF s.name = "polyline"
    THEN \A k \in DOMAIN s.attributes.points :
            /\ s.attributes.points[k][1] = m.attributes.points[k][1]
            /\ s.attributes.points[k][2] = Mirror(m.attributes.points[k][2])
    ELSE IF s.name = "rect"
    THEN /\ s.attributes.x = m.attributes.x
         /\ s.attributes.width = m.attributes.width
         /\ s.attributes.height = m.attributes.height
         /\ s.attributes.y = Mirror(Add(m.attributes.y, m.attributes.height))
    ELSE /\ s.attributes.cx = m.attributes.cx
         /\ s.attributes.cy = Mirror(m.attributes.cy)

\* C4: for a scene with a non-degenerate bounding box, rendering under
\* 'screen' gives the horizontal coordinates of rendering under 'math' and
\* vertical coordinates reflected about y = SIZE / 2, rect spans included.
C4_ScreenMathMirror ==
    (Rendered /\ NonDegenerate /\ graphics.coordinateSystem = "screen") =>
        \A i \in 1..PrimitiveCount : NodeMirrors(svg[i], MathSvg[i])

\* C5: after a pointer move to the canvas position M(p) of a scene point p,
\* the script's inversion recovers p: the readout is p to two decimals.
C5_InverseRoundTrip ==
    (Rendered /\ lastEvent.type = "mousemove" /\ MatrixFinite(matrix)) =>
        \A p \in Probes :
            applyToPoint(matrix, p) = [x |-> lastEvent.x, y |-> lastEvent.y] =>
                svg[CrosshairIndex(svg)].coordinates.textContent
                    = <<toFixed2(p.x), toFixed2(p.y)>>

\* C6: every rect (non-negative width and height) is rendered with width
\* rect.width * |a|, height rect.height * |d| and its centre at the
\* projection of rect.center, under 'math' and under 'screen'.
C6_RectCentreAnchored ==
    Rendered =>
        \A i \in DOMAIN rects :
            LET at == svg[RectAt(i)].attributes
                c == applyToPoint(matrix, rects[i].center)
            IN  /\ at.width = Mul(rects[i].width, MathAbs(matrix.a))
                /\ at.height = Mul(rects[i].height, MathAbs(matrix.d))
                /\ Add(at.x, Div(at.width, I(2))) = c.x
                /\ Add(at.y, Div(at.height, I(2))) = c.y

\* C7: the root's children are one group per point, one polyline per line,
\* one rect per Rect, one circle per Circle, each in input order, then the
\* crosshair group, then the script; nothing is dropped, doubled or moved.
C7_RenderOrder ==
    Rendered =>
        /\ Len(svg) = PrimitiveCount + 2
        /\ \A i \in DOMAIN points :
              LET c == applyToPoint(matrix, points[i])
              IN  /\ svg[i].name = "g"
                  /\ "children" \in DOMAIN svg[i]
                  /\ svg[i].children[1].attributes.cx = c.x
                  /\ svg[i].children[1].attributes.cy = c.y
        /\ \A i \in DOMAIN lines :
              /\ svg[LineAt(i)].name = "polyline"
              /\ svg[LineAt(i)].attributes.points =
                    [k \in DOMAIN lines[i].points |->
                        <<applyToPoint(matrix, lines[i].points[k]).x,
                          applyToPoint(matrix, lines[i].points[k]).y>>]
        /\ \A i \in DOMAIN rects :
              /\ svg[RectAt(i)].name = "rect"
              /\ svg[RectAt(i)].attributes.width = Mul(rects[i].width, matrix.a)
              /\ Add(svg[RectAt(i)].attributes.x, Div(svg[RectAt(i)].attributes.width, I(2)))
                    = applyToPoint(matrix, rects[i].center).x
        /\ \A i \in DOMAIN circles :
              /\ svg[CircleAt(i)].name = "circle"
              /\ svg[CircleAt(i)].attributes.cx = applyToPoint(matrix, circles[i].center).x
              /\ svg[CircleAt(i)].attributes.cy = applyToPoint(matrix, circles[i].center).y
              /\ svg[CircleAt(i)].attributes.r = Mul(circles[i].radius, MathAbs(matrix.a))
        /\ svg[PrimitiveCount + 1].name = "g"
        /\ svg[PrimitiveCount + 1].attributes.id = "crosshair"
        /\ svg[PrimitiveCount + 2].name = "script"

C7_Witness ==
    /\ Rendered /\ NonDegenerate
    /\ Len(points) = 1 /\ Len(circles) = 1
    /\ circles[1].radius = I(1) /\ circles[1].center # points[1]

\* C8: the overlay starts hidden and is determined by the last pointer event:
\* visible with the guides at (x, y) and the readout at (x + 5, y - 5) after
\* a pointer move to (x, y), hidden after a pointer leave.
C8_CrosshairFollowsLastEvent ==
    Rendered =>
        LET ch == svg[CrosshairIndex(svg)]
        IN  /\ lastEvent.type = "none" => ch.attributes.display = "none"
            /\ lastEvent.type = "mouseleave" => ch.attributes.display = "none"
            /\ lastEvent.type = "mousemove" =>
                  /\ ch.attributes.display = "block"
                  /\ ch.h.y1 = lastEvent.y /\ ch.h.y2 = lastEvent.y
                  /\ ch.v.x1 = lastEvent.x /\ ch.v.x2 = lastEvent.x
                  /\ ch.coordinates.x = Add(lastEvent.x, I(5))
                  /\ ch.coordinates.y = Sub(lastEvent.y, I(5))

\* C9: for bounds of positive width and height the matrix has b = c = 0,
\* a = k, d = k under 'math' and -k under 'screen', with
\* k = min((S - 2P) / w, (S - 2P) / h) > 0, and it maps the centre of the
\* bounding box to the canvas centre (S/2, S/2).
C9_TransformShape ==
    (Rendered /\ NonDegenerate) =>
        LET k == MathMin(Div(I(560), BoundsWidth), Div(I(560), BoundsHeight))
            centre == [x |-> Div(Add(bounds.minX, bounds.maxX), I(2)),
                       y |-> Div(Add(bounds.minY, bounds.maxY), I(2))]
        IN  /\ Lt(Zero, k) /\ IsFinite(k)
            /\ matrix.b = Zero /\ matrix.c = Zero
            /\ matrix.a = k
            /\ matrix.d = (IF graphics.coordinateSystem = "screen" THEN Neg(k) ELSE k)
            /\ MathAbs(matrix.a) = MathAbs(matrix.d)
            /\ applyToPoint(matrix, centre) = [x |-> I(320), y |-> I(320)]

C9_Witness ==
    /\ Rendered /\ NonDegenerate
    /\ graphics.coordinateSystem = "screen"
    /\ BoundsWidth # BoundsHeight
    /\ bounds.minX # Neg(bounds.maxX)

\* the points the claim says a scene contributes to its bounding box
Contributed ==
    {points[i] : i \in DOMAIN points}
        \cup UNION {{lines[i].points[k] : k \in DOMAIN lines[i].points} : i \in DOMAIN lines}
        \cup UNION {{[x |-> Add(rects[i].center.x, Mul(I(sx), Div(rects[i].width, I(2)))),
                      y |-> Add(rects[i].center.y, Mul(I(sy), Div(rects[i].height, I(2))))] :
                        sx \in {-1, 1}, sy \in {-1, 1}} : i \in DOMAIN rects}
        \cup UNION {{[x |-> Add(circles[i].center.x, Mul(I(s), circles[i].radius)),
                      y |-> circles[i].center.y] : s \in {-1, 1}}
                    \cup {[x |-> circles[i].center.x,
                           y |-> Add(circles[i].center.y, Mul(I(s), circles[i].radius))] :
                             s \in {-1, 1}} : i \in DOMAIN circles}

\* C10: for a non-empty scene the bounds are the tightest box over the
\* standalone points, the line vertices, the four corners of every rect and
\* the four extremal points of every circle.
C10_BoundsCoverage ==
    (Rendered /\ NonEmptyScene) =>
        /\ Le(bounds.minX, bounds.maxX) /\ Le(bounds.minY, bounds.maxY)
        /\ \A p \in Contributed :
              /\ Le(bounds.minX, p.x) /\ Le(p.x, bounds.maxX)
              /\ Le(bounds.minY, p.y) /\ Le(p.y, bounds.maxY)
        /\ \E p \in Contributed : p.x = bounds.minX
        /\ \E p \in Contributed : p.x = bounds.maxX
        /\ \E p \in Contributed : p.y = bounds.minY
        /\ \E p \in Contributed : p.y = bounds.maxY

C10_Witness ==
    /\ Rendered
    /\ Len(circles) = 1 /\ circles[1].radius = I(1)
    /\ Len(rects) = 1 /\ rects[1].width = I(2)
    /\ bounds.minX = I(-1)

====
